---- MODULE Spec2Model ----
(***************************************************************************)
(* Model of QueryNLP.                                                      *)
(*                                                                         *)
(* Spec           DatabaseManager (src/db_manager.py): the connection      *)
(*                lifecycle (connect / close), the cached schema, and the  *)
(*                read-only query executor with its write gate and row cap *)
(* SpecIntrospect the three schema introspection routines, over declared   *)
(*                databases with single and composite keys                 *)
(* SpecChart      the two Chart.js configuration builders                  *)
(*                (src/chat_app.py, src/server.py)                         *)
(* SpecSessions   two clients sending requests to the process-wide manager *)
(*                of the HTTP layer                                        *)
(*                                                                         *)
(* Text is modelled as a sequence of one-character strings so that         *)
(* strip(), lower(), upper(), split(), str() and float() are computed, not *)
(* assumed.  An optional value is <<>> (Python None) or <<v>>.             *)
(***************************************************************************)
EXTENDS Integers, Sequences, FiniteSets, TLC

\* ------------------------------------------------------------------ bounds
MaxCloseFailures == 1  \* failures of a connection object's close() during one run
MaxCap == 2            \* largest max_rows argument passed to execute_query
MaxBackendRows == 3    \* largest result set the backend produces
MaxCols == 2           \* widest result set the backend produces
MaxChartRows == 3      \* most rows of a result handed to a chart builder
PaletteLen == 2        \* colours in the chart palette

\* ------------------------------------------------------------------ text
None == <<>>
Some(x) == <<x>>

Lowers == <<"a","b","c","d","e","f","g","h","i","j","k","l","m",
            "n","o","p","q","r","s","t","u","v","w","x","y","z">>
Uppers == <<"A","B","C","D","E","F","G","H","I","J","K","L","M",
            "N","O","P","Q","R","S","T","U","V","W","X","Y","Z">>

Whitespace == {" ", "\t", "\n"}

UpperCh(c) ==
    IF \E i \in 1..26 : Lowers[i] = c
    THEN Uppers[CHOOSE i \in 1..26 : Lowers[i] = c]
    ELSE c

LowerCh(c) ==
    IF \E i \in 1..26 : Uppers[i] = c
    THEN Lowers[CHOOSE i \in 1..26 : Uppers[i] = c]
    ELSE c

\* str.upper() / str.lower()
Upper(s) == [i \in 1..Len(s) |-> UpperCh(s[i])]
Lower(s) == [i \in 1..Len(s) |-> LowerCh(s[i])]

RECURSIVE LStrip(_)
LStrip(s) ==
    IF s # <<>> /\ s[1] \in Whitespace THEN LStrip(Tail(s)) ELSE s

RECURSIVE RStrip(_)
RStrip(s) ==
    IF s # <<>> /\ s[Len(s)] \in Whitespace
    THEN RStrip(SubSeq(s, 1, Len(s) - 1))
    ELSE s

\* str.strip()
Strip(s) == RStrip(LStrip(s))

\* str.split() with no separator: maximal runs of non-whitespace, in order
RECURSIVE SplitFrom(_, _, _)
SplitFrom(s, cur, acc) ==
    IF s = <<>>
    THEN IF cur = <<>> THEN acc ELSE Append(acc, cur)
    ELSE IF s[1] \in Whitespace
         THEN SplitFrom(Tail(s), <<>>, IF cur = <<>> THEN acc ELSE Append(acc, cur))
         ELSE SplitFrom(Tail(s), Append(cur, s[1]), acc)

Split(s) == SplitFrom(s, <<>>, <<>>)

\* ------------------------------------------------------------------ dialects
sqlite == <<"s","q","l","i","t","e">>
postgresql == <<"p","o","s","t","g","r","e","s","q","l">>
postgres == <<"p","o","s","t","g","r","e","s">>
mysql == <<"m","y","s","q","l">>
oracle == <<"o","r","a","c","l","e">>
SQLitePadded == <<" ","S","Q","L","i","t","e"," ">>

\* the db_type arguments a caller passes to connect
DialectArgs == {sqlite, postgresql, postgres, mysql, oracle, SQLitePadded}

\* ------------------------------------------------------------------ targets
\* connection_string arguments and what the environment holds behind them
\*   A, B : databases with different tables      E : a database with no table
\*   K    : opens, but its metadata cannot be read (not a database file)
\*   X    : cannot be opened                     P : URI whose port is not a number
Targets == {"A", "B", "E", "K", "X", "P"}

Reachable(t) == t \in {"A", "B", "E", "K"}
IntrospectOk(t) == t # "K"
PortParses(t) == t # "P"

DbTables(t) ==
    CASE t = "A" -> {"t1", "t2"}
      [] t = "B" -> {"t3"}
      [] OTHER -> {}

DbRowCount(n) ==
    CASE n = "t1" -> 2
      [] n = "t2" -> 0
      [] OTHER -> 1

\* ------------------------------------------------------------------ state
VARIABLES
    connection,      \* self.connection: None or Some(connection object)
    db_type,         \* self.db_type: None or Some(text)
    schema,          \* self.schema: None or Some(schema dict)
    leaked,          \* connection objects still open that self.connection no longer refers to
    close_failures,  \* how often the driver's close() has raised so far
    pc,              \* "idle": no call is running; "close_old", "open", "introspect":
                     \* position inside connect(); "done": a call has just returned or raised
    call,            \* the running or just completed call: arguments and outcome
    session          \* the clients of the process-wide manager: whose request runs or
                     \* ran last, and the database each was last told it is connected to

vars == <<connection, db_type, schema, leaked, close_failures, pc, call, session>>

manager == <<connection, db_type, schema>>

NoCall == [op |-> "none", outcome |-> "none"]

\* the clients that send requests to the one process
Sessions == {1, 2}

NoSession == [asker |-> 0, connected |-> [s \in Sessions |-> None]]

\* DatabaseManager.__init__
Init ==
    /\ connection = None
    /\ db_type = None
    /\ schema = None
    /\ leaked = 0
    /\ close_failures = 0
    /\ pc = "idle"
    /\ call = NoCall
    /\ session = NoSession

\* bool(self.connection): a connection object is truthy, open or closed
HasConnection == connection # None

IsOpen(c) == c # None /\ c[1].open

\* connection objects this manager opened that are open right now
OpenCount == (IF IsOpen(connection) THEN 1 ELSE 0) + leaked

\* Python's "x in list"
InList(x, l) == \E i \in 1..Len(l) : l[i] = x

\* ------------------------------------------------------------------ introspection
\* A database as it was declared: per table its columns in order, the columns
\* of its primary key in order, and its foreign-key constraints.
Col(name, type, notnull) == [name |-> name, type |-> type, notnull |-> notnull, dflt |-> None]

Fk(name, cols, ref_table, ref_cols) ==
    [name |-> name, cols |-> cols, ref_table |-> ref_table, ref_cols |-> ref_cols]

TableDecl(n) ==
    CASE n = "t1" -> [columns |-> <<Col("a", "INTEGER", TRUE), Col("b", "TEXT", TRUE),
                                    Col("c", "INTEGER", FALSE)>>,
                      pk |-> <<"a", "b">>,
                      fks |-> <<Fk("t1_c_fkey", <<"c">>, "t2", <<"id">>)>>,
                      rows |-> DbRowCount(n)]
      [] n = "t2" -> [columns |-> <<Col("id", "INTEGER", TRUE)>>,
                      pk |-> <<"id">>,
                      fks |-> <<>>,
                      rows |-> DbRowCount(n)]
      [] OTHER -> [columns |-> <<Col("id", "INTEGER", TRUE), Col("name", "TEXT", FALSE)>>,
                   pk |-> <<"id">>,
                   fks |-> <<>>,
                   rows |-> DbRowCount(n)]

\* the database behind target t
DbOf(t) == [n \in DbTables(t) |-> TableDecl(n)]

\* position of x in the sequence l, 0 when it is not there
PosIn(l, x) == IF InList(x, l) THEN CHOOSE i \in 1..Len(l) : l[i] = x ELSE 0

RECURSIVE SeqOf(_)
\* the rows of an unordered SELECT, in the order the backend happens to return them
SeqOf(S) ==
    IF S = {} THEN <<>>
    ELSE LET x == CHOOSE x \in S : TRUE IN <<x>> \o SeqOf(S \ {x})

RECURSIVE Concat(_)
Concat(ll) == IF ll = <<>> THEN <<>> ELSE Head(ll) \o Concat(Tail(ll))

\* ---- SQLite's native facilities
\* PRAGMA table_info: (cid, name, type, notnull, dflt_value, pk), pk being the
\* column's position in the primary key counted from 1, 0 outside it
table_info(decl) ==
    [i \in 1..Len(decl.columns) |->
        <<i - 1, decl.columns[i].name, decl.columns[i].type,
          IF decl.columns[i].notnull THEN 1 ELSE 0,
          decl.columns[i].dflt, PosIn(decl.pk, decl.columns[i].name)>>]

\* PRAGMA foreign_key_list: (id, seq, table, from, to, on_update, on_delete, match),
\* one row per column of each constraint, the constraint declared last first
foreign_key_list(decl) ==
    Concat([id \in 1..Len(decl.fks) |->
              LET fk == decl.fks[Len(decl.fks) + 1 - id]
              IN  [j \in 1..Len(fk.cols) |->
                     <<id - 1, j - 1, fk.ref_table, fk.cols[j], fk.ref_cols[j],
                       "NO ACTION", "NO ACTION", "NONE">>]])

\* ---- PostgreSQL's native facilities
\* information_schema.columns of one table, ordered by ordinal_position:
\* (column_name, data_type, is_nullable, column_default)
information_schema_columns(decl) ==
    [i \in 1..Len(decl.columns) |->
        <<decl.columns[i].name, decl.columns[i].type,
          IF decl.columns[i].notnull THEN "NO" ELSE "YES", decl.columns[i].dflt>>]

\* the attribute names of the table's primary-key index (pg_index, pg_attribute)
primary_index_attnames(decl) == {decl.pk[i] : i \in 1..Len(decl.pk)}

\* information_schema.table_constraints, foreign keys only
table_constraints(db) ==
    UNION {{[constraint_name |-> db[n].fks[k].name, table_name |-> n,
             constraint_type |-> "FOREIGN KEY"] : k \in 1..Len(db[n].fks)} : n \in DOMAIN db}

\* information_schema.key_column_usage: one row per constrained column
key_column_usage(db) ==
    UNION {UNION {{[constraint_name |-> db[n].fks[k].name, table_name |-> n,
                    column_name |-> db[n].fks[k].cols[j]] : j \in 1..Len(db[n].fks[k].cols)}
                  : k \in 1..Len(db[n].fks)} : n \in DOMAIN db}

\* information_schema.constraint_column_usage: one row per referenced column
constraint_column_usage(db) ==
    UNION {UNION {{[constraint_name |-> db[n].fks[k].name, table_name |-> db[n].fks[k].ref_table,
                    column_name |-> db[n].fks[k].ref_cols[j]] : j \in 1..Len(db[n].fks[k].ref_cols)}
                  : k \in 1..Len(db[n].fks)} : n \in DOMAIN db}

\* ---- MySQL's native facilities
\* DESCRIBE: (Field, Type, Null, Key, Default, Extra)
DESCRIBE(decl) ==
    [i \in 1..Len(decl.columns) |->
        <<decl.columns[i].name, decl.columns[i].type,
          IF decl.columns[i].notnull THEN "NO" ELSE "YES",
          IF InList(decl.columns[i].name, decl.pk) THEN "PRI"
          ELSE IF \E k \in 1..Len(decl.fks) : InList(decl.columns[i].name, decl.fks[k].cols)
          THEN "MUL" ELSE "",
          decl.columns[i].dflt, "">>]

\* INFORMATION_SCHEMA.KEY_COLUMN_USAGE rows of the current database that
\* reference a table: (TABLE_NAME, COLUMN_NAME, REFERENCED_TABLE_NAME, REFERENCED_COLUMN_NAME)
KEY_COLUMN_USAGE(db) ==
    UNION {UNION {{[TABLE_NAME |-> n, COLUMN_NAME |-> db[n].fks[k].cols[j],
                    REFERENCED_TABLE_NAME |-> db[n].fks[k].ref_table,
                    REFERENCED_COLUMN_NAME |-> db[n].fks[k].ref_cols[j]]
                   : j \in 1..Len(db[n].fks[k].cols)}
                  : k \in 1..Len(db[n].fks)} : n \in DOMAIN db}

\* ---- the three introspection routines over a database db
ForeignKey(column, references_table, references_column) ==
    [column |-> column, references_table |-> references_table,
     references_column |-> references_column]

\* lines 124-166
_introspect_sqlite(db) ==
    [n \in DOMAIN db |->
        [columns |-> [i \in 1..Len(table_info(db[n])) |->
                        LET col == table_info(db[n])[i]
                        IN  [name |-> col[2], type |-> col[3], nullable |-> col[4] = 0,
                             primary_key |-> col[6] # 0, default |-> col[5]]],
         foreign_keys |-> [i \in 1..Len(foreign_key_list(db[n])) |->
                             LET fk == foreign_key_list(db[n])[i]
                             IN  ForeignKey(fk[4], fk[3], fk[5])],
         row_count |-> db[n].rows]]

\* lines 211-229: the three-way join, matched on the constraint name
postgresql_foreign_keys(db, n) ==
    SeqOf({ForeignKey(kcu.column_name, ccu.table_name, ccu.column_name) :
             <<tc, kcu, ccu>> \in
               {j \in table_constraints(db) \X key_column_usage(db) \X constraint_column_usage(db) :
                  /\ j[1].constraint_name = j[2].constraint_name
                  /\ j[3].constraint_name = j[1].constraint_name
                  /\ j[1].constraint_type = "FOREIGN KEY"
                  /\ j[1].table_name = n}})

\* lines 168-241
_introspect_postgresql(db) ==
    [n \in DOMAIN db |->
        [columns |-> [i \in 1..Len(information_schema_columns(db[n])) |->
                        LET col == information_schema_columns(db[n])[i]
                        IN  [name |-> col[1], type |-> col[2], nullable |-> col[3] = "YES",
                             primary_key |-> col[1] \in primary_index_attnames(db[n]),
                             default |-> col[4]]],
         foreign_keys |-> postgresql_foreign_keys(db, n),
         row_count |-> db[n].rows]]

\* lines 243-288
_introspect_mysql(db) ==
    [n \in DOMAIN db |->
        [columns |-> [i \in 1..Len(DESCRIBE(db[n])) |->
                        LET col == DESCRIBE(db[n])[i]
                        IN  [name |-> col[1], type |-> col[2], nullable |-> col[3] = "YES",
                             primary_key |-> col[4] = "PRI", default |-> col[5]]],
         foreign_keys |-> SeqOf({ForeignKey(r.COLUMN_NAME, r.REFERENCED_TABLE_NAME,
                                            r.REFERENCED_COLUMN_NAME) :
                                   r \in {u \in KEY_COLUMN_USAGE(db) : u.TABLE_NAME = n}}),
         row_count |-> db[n].rows]]

\* DatabaseManager._introspect_schema, run against the database db
_introspect_schema(dt, db) ==
    IF dt = Some(sqlite) THEN _introspect_sqlite(db)
    ELSE IF dt = Some(postgresql) THEN _introspect_postgresql(db)
    ELSE IF dt = Some(mysql) THEN _introspect_mysql(db)
    ELSE <<>>

\* ------------------------------------------------------------------ connect
\* connect() raises: the call is over
Raise(outcome) ==
    /\ call' = [call EXCEPT !.outcome = outcome]
    /\ pc' = "done"

\* lines 36-37: normalise the dialect and store it
ConnectBegin(d, t) ==
    /\ pc = "idle"
    /\ call' = [op |-> "connect", outcome |-> "running",
                db_type_arg |-> d, db_type |-> Strip(Lower(d)), target |-> t,
                pre |-> manager, close_failed |-> FALSE,
                driver_ok |-> TRUE, session_ok |-> TRUE, value |-> None]
    /\ db_type' = Some(Strip(Lower(d)))
    /\ pc' = "close_old"
    /\ UNCHANGED <<connection, schema, leaked, close_failures>>

\* variant of CloseOld: the existing connection is left as it is
CloseOldSkipped(fails) ==
    /\ fails = FALSE
    /\ UNCHANGED <<connection, close_failures, call>>

\* lines 39-44: close the existing connection, swallowing any failure
CloseOld(fails) ==
    IF connection # None
    THEN IF fails
         THEN /\ close_failures < MaxCloseFailures
              /\ close_failures' = close_failures + 1
              /\ call' = [call EXCEPT !.close_failed = TRUE]
              /\ connection' = connection
         ELSE /\ connection' = Some([connection[1] EXCEPT !.open = FALSE])
              /\ UNCHANGED <<close_failures, call>>
    ELSE /\ fails = FALSE
         /\ UNCHANGED <<connection, close_failures, call>>

\* variant of ConnectCloseOld: a failing close() ends connect() with that failure
ConnectCloseOldPropagates(fails) ==
    /\ pc = "close_old"
    /\ IF connection # None /\ fails
       THEN /\ close_failures < MaxCloseFailures
            /\ close_failures' = close_failures + 1
            /\ call' = [call EXCEPT !.close_failed = TRUE, !.outcome = "DriverError"]
            /\ connection' = connection
            /\ pc' = "done"
       ELSE CloseOld(fails) /\ pc' = "open"
    /\ UNCHANGED <<db_type, schema, leaked>>

ConnectCloseOld(fails) ==
    /\ pc = "close_old"
    /\ CloseOld(fails)
    /\ pc' = "open"
    /\ UNCHANGED <<db_type, schema, leaked>>

\* the driver's connect call: a new connection object replaces self.connection
OpenNew ==
    /\ connection' = Some([target |-> call.target, open |-> TRUE])
    /\ leaked' = leaked + (IF IsOpen(connection) THEN 1 ELSE 0)

\* lines 46-81: the dialect branches.  driver_ok: the backend's client library
\* can be imported; session_ok: the call that follows the driver's connect succeeds
ConnectOpen(driver_ok, session_ok) ==
    /\ pc = "open"
    /\ LET c == [call EXCEPT !.driver_ok = driver_ok, !.session_ok = session_ok]
           Fail(outcome) == call' = [c EXCEPT !.outcome = outcome] /\ pc' = "done"
           Opened == OpenNew /\ call' = c /\ pc' = "introspect"
           Kept == UNCHANGED <<connection, leaked>>
       IN  IF call.db_type = sqlite
           THEN /\ driver_ok /\ session_ok
                /\ db_type' = db_type
                /\ IF Reachable(call.target) THEN Opened ELSE Fail("ConnectionError") /\ Kept
           ELSE IF call.db_type \in {postgresql, postgres}
           THEN /\ db_type' = Some(postgresql)
                /\ IF ~driver_ok
                   THEN session_ok /\ Fail("ImportError") /\ Kept
                   ELSE IF ~Reachable(call.target)
                   THEN session_ok /\ Fail("ConnectionError") /\ Kept
                   ELSE IF ~session_ok
                   THEN OpenNew /\ Fail("ConnectionError")
                   ELSE Opened
           ELSE IF call.db_type = mysql
           THEN /\ session_ok
                /\ db_type' = db_type
                /\ IF ~driver_ok
                   THEN Fail("ImportError") /\ Kept
                   ELSE IF ~PortParses(call.target)
                   THEN Fail("ValueError") /\ Kept
                   ELSE IF ~Reachable(call.target)
                   THEN Fail("ConnectionError") /\ Kept
                   ELSE Opened
           ELSE /\ driver_ok /\ session_ok
                /\ db_type' = db_type
                /\ Fail("ValueError") /\ Kept
    /\ UNCHANGED <<schema, close_failures>>

\* lines 83-84: introspect the new connection, cache and return the schema
ConnectIntrospect ==
    /\ pc = "introspect"
    /\ IF IntrospectOk(connection[1].target)
       THEN /\ schema' = Some(_introspect_schema(db_type, DbOf(connection[1].target)))
            /\ call' = [call EXCEPT !.outcome = "ok",
                                    !.value = Some(_introspect_schema(db_type, DbOf(connection[1].target)))]
            /\ pc' = "done"
       ELSE /\ Raise("DriverError")
            /\ schema' = schema
    /\ UNCHANGED <<connection, db_type, leaked, close_failures>>

\* ------------------------------------------------------------------ execute_query
KW_INSERT == <<"I","N","S","E","R","T">>
KW_UPDATE == <<"U","P","D","A","T","E">>
KW_DELETE == <<"D","E","L","E","T","E">>
KW_DROP == <<"D","R","O","P">>
KW_ALTER == <<"A","L","T","E","R">>
KW_CREATE == <<"C","R","E","A","T","E">>
KW_TRUNCATE == <<"T","R","U","N","C","A","T","E">>
KW_REPLACE == <<"R","E","P","L","A","C","E">>
KW_MERGE == <<"M","E","R","G","E">>

\* line 333
dangerous_keywords ==
    <<KW_INSERT, KW_UPDATE, KW_DELETE, KW_DROP, KW_ALTER, KW_CREATE,
      KW_TRUNCATE, KW_REPLACE, KW_MERGE>>

\* variant of first_word: the text is trimmed but not upper-cased
first_word_as_typed(sql) ==
    IF Split(Strip(sql)) # <<>> THEN Split(Strip(sql))[1] ELSE <<>>

\* lines 332-334
first_word(sql) ==
    LET sql_upper == Upper(Strip(sql))
    IN  IF Split(sql_upper) # <<>> THEN Split(sql_upper)[1] ELSE <<>>

\* line 335: the write gate
IsWrite(sql) == InList(first_word(sql), dangerous_keywords)

\* the sql arguments a caller passes to execute_query
SqlTexts ==
    { KW_INSERT, KW_UPDATE, KW_DROP, KW_ALTER, KW_CREATE, KW_TRUNCATE, KW_REPLACE, KW_MERGE,
      KW_DELETE \o <<" ","F","R","O","M"," ","t">>,
      <<" ","\t">> \o Lower(KW_DELETE) \o <<"\n","t">>,
      <<"D","r","o","p"," ">>,
      <<"S","E","L","E","C","T"," ","1">>,
      <<>>,
      <<" "," ">>,
      KW_DELETE \o <<"D">>,
      KW_DELETE \o <<";">>,
      <<"W","I","T","H"," ">> \o KW_DROP,
      <<"x"," ">> \o Lower(KW_INSERT) }

ColName(j) == <<"c", j>>

\* cursor.description after cursor.execute: None for a statement that returns no rows
Description(ncols) ==
    IF ncols = 0 THEN None ELSE Some([j \in 1..ncols |-> <<ColName(j), "type_code">>])

\* the rows the backend holds for the statement, in its order
BackendRows(ncols, n) == [i \in 1..n |-> [j \in 1..ncols |-> 10 * i + j]]

Min(a, b) == IF a < b THEN a ELSE b

\* cursor.fetchmany(size): the next size rows; what a size below 1 yields is
\* the driver's choice (sqlite3 returns every row)
fetchmany(rows, size, all_when_unbounded) ==
    IF size >= 1 THEN SubSeq(rows, 1, Min(size, Len(rows)))
    ELSE IF all_when_unbounded THEN rows ELSE <<>>

\* lines 347-357: column names per dialect
ColumnsOf(description) ==
    IF db_type \in {Some(sqlite), Some(postgresql), Some(mysql)}
    THEN IF description # None
         THEN [j \in 1..Len(description[1]) |-> description[1][j][1]]
         ELSE <<>>
    ELSE <<>>

\* variant of TabularResult: truncated only when more rows than the cap came back
TabularResultStrict(description, rows, max_rows) ==
    [columns |-> ColumnsOf(description),
     rows |-> rows,
     row_count |-> Len(rows),
     truncated |-> Len(rows) > max_rows]

\* lines 359-367
TabularResult(description, rows, max_rows) ==
    [columns |-> ColumnsOf(description),
     rows |-> rows,
     row_count |-> Len(rows),
     truncated |-> Len(rows) >= max_rows]

\* variant of ExceptClause: only the driver's own errors are wrapped
ExceptClauseDriverOnly(raised) ==
    IF raised = "DriverError" THEN "RuntimeError" ELSE raised

\* lines 368-369: whatever the try block raised leaves as RuntimeError
ExceptClause(raised) == "RuntimeError"

ExecuteRaise(sql, max_rows, outcome, backend_calls) ==
    call' = [op |-> "execute", outcome |-> outcome, sql |-> sql, max_rows |-> max_rows,
             backend_calls |-> backend_calls]

\* the backend runs the statement: it raises, or yields a result set of n rows
\* and ncols columns (a statement that returns no rows, such as blank text, has
\* no columns)
BackendOutcomes ==
    {[fails |-> TRUE, ncols |-> 0, n |-> 0], [fails |-> FALSE, ncols |-> 0, n |-> 0]} \cup
    {[fails |-> FALSE, ncols |-> c, n |-> k] : c \in 1..MaxCols, k \in 0..MaxBackendRows}

\* DatabaseManager.execute_query
ExecuteQuery(sql, max_rows) ==
    /\ pc = "idle"
    /\ IF IsWrite(sql)
       THEN ExecuteRaise(sql, max_rows, "ValueError", 0)
       ELSE IF connection = None \/ ~IsOpen(connection)
       THEN ExecuteRaise(sql, max_rows,
                         ExceptClause(IF connection = None THEN "AttributeError"
                                                           ELSE "DriverError"), 0)
       ELSE \E b \in BackendOutcomes, all_when_unbounded \in BOOLEAN :
              IF b.fails
              THEN /\ ~all_when_unbounded
                   /\ ExecuteRaise(sql, max_rows, ExceptClause("DriverError"), 1)
              ELSE /\ max_rows >= 1 => ~all_when_unbounded
                   /\ Strip(sql) = <<>> => b.ncols = 0
                   /\ call' = [op |-> "execute", outcome |-> "ok", sql |-> sql,
                               max_rows |-> max_rows, backend_calls |-> 1,
                               ran_on |-> connection[1].target,
                               description |-> Description(b.ncols),
                               backend_rows |-> BackendRows(b.ncols, b.n),
                               result |-> TabularResult(Description(b.ncols),
                                             fetchmany(BackendRows(b.ncols, b.n), max_rows,
                                                       all_when_unbounded),
                                             max_rows)]
    /\ pc' = "done"
    /\ UNCHANGED <<connection, db_type, schema, leaked, close_failures>>

\* ------------------------------------------------------------------ close
\* variant of Close: the fields are cleared before the driver's close() is called
CloseClearsFirst(fails) ==
    /\ pc = "idle"
    /\ IF connection # None
       THEN IF fails
            THEN /\ close_failures < MaxCloseFailures
                 /\ close_failures' = close_failures + 1
                 /\ call' = [op |-> "close", outcome |-> "DriverError"]
                 /\ connection' = None
                 /\ db_type' = None
                 /\ schema' = None
            ELSE /\ connection' = None
                 /\ db_type' = None
                 /\ schema' = None
                 /\ call' = [op |-> "close", outcome |-> "ok"]
                 /\ UNCHANGED close_failures
       ELSE /\ fails = FALSE
            /\ call' = [op |-> "close", outcome |-> "ok"]
            /\ UNCHANGED <<connection, db_type, schema, close_failures>>
    /\ pc' = "done"
    /\ UNCHANGED leaked

\* DatabaseManager.close
Close(fails) ==
    /\ pc = "idle"
    /\ IF connection # None
       THEN IF fails
            THEN /\ close_failures < MaxCloseFailures
                 /\ close_failures' = close_failures + 1
                 /\ call' = [op |-> "close", outcome |-> "DriverError"]
                 /\ UNCHANGED <<connection, db_type, schema>>
            ELSE /\ connection' = None
                 /\ db_type' = None
                 /\ schema' = None
                 /\ call' = [op |-> "close", outcome |-> "ok"]
                 /\ UNCHANGED close_failures
       ELSE /\ fails = FALSE
            /\ call' = [op |-> "close", outcome |-> "ok"]
            /\ UNCHANGED <<connection, db_type, schema, close_failures>>
    /\ pc' = "done"
    /\ UNCHANGED leaked

\* ------------------------------------------------------------------ accessors
\* chat_app.get_schema: the schema a caller can read, None when it answers "No database connected"
get_schema == IF ~HasConnection THEN None ELSE Some(schema)

\* A text is kept as the sequence of its lines (what "\n".join puts together),
\* and a line as the fixed words and the values formatted into it.
TextLine(t) == [line |-> "text", text |-> t]
BlankLine == [line |-> "blank"]
\* "-" * 50
RuleWidth == 50
RuleLine == [line |-> "rule", char |-> "-", times |-> RuleWidth]
DialectLine(dt) == [line |-> "Database Type:", db_type |-> dt]
TableLine(n, rows) == [line |-> "Table:", name |-> n, rows |-> rows]
ColumnLine(col) ==
    [line |-> "column", name |-> col.name, type |-> col.type,
     nullable |-> IF col.nullable THEN " NULL" ELSE " NOT NULL",
     pk |-> IF col.primary_key THEN " [PRIMARY KEY]" ELSE ""]
ForeignKeysLine == [line |-> "Foreign Keys:"]
ForeignKeyLine(fk) ==
    [line |-> "foreign key", column |-> fk.column,
     references_table |-> fk.references_table,
     references_column |-> fk.references_column]

NoDatabaseConnected == <<TextLine("No database connected.")>>

\* the lines of one table of the schema
TableBlock(n, info) ==
    <<TableLine(n, info.row_count), RuleLine>>
    \o [i \in 1..Len(info.columns) |-> ColumnLine(info.columns[i])]
    \o (IF info.foreign_keys # <<>>
        THEN <<ForeignKeysLine>>
             \o [i \in 1..Len(info.foreign_keys) |-> ForeignKeyLine(info.foreign_keys[i])]
        ELSE <<>>)
    \o <<BlankLine>>

\* "not self.schema": None and the schema without tables are both false
SchemaIsFalsy(sch) == sch = None \/ DOMAIN sch[1] = {}

\* DatabaseManager.get_schema_description, of the fields as they are now
SchemaDescription(dt, sch) ==
    IF SchemaIsFalsy(sch) THEN NoDatabaseConnected
    ELSE <<DialectLine(dt[1]), BlankLine>>
         \o Concat([i \in 1..Cardinality(DOMAIN sch[1]) |->
                      TableBlock(SeqOf(DOMAIN sch[1])[i], sch[1][SeqOf(DOMAIN sch[1])[i]])])

get_schema_description == SchemaDescription(db_type, schema)

\* ------------------------------------------------------------------ scalars of a result row
\* a row value: an integer, a text, or null (None)
IntCell(n) == [t |-> "int", n |-> n]
TextCell(s) == [t |-> "str", s |-> s]
NullCell == [t |-> "null"]

Digits == <<"0", "1", "2", "3", "4", "5", "6", "7", "8", "9">>

IsDigit(c) == \E d \in 1..10 : Digits[d] = c

DigitValue(c) == (CHOOSE d \in 1..10 : Digits[d] = c) - 1

RECURSIVE DecimalText(_)
\* the decimal digits of n >= 0
DecimalText(n) ==
    IF n < 10 THEN <<Digits[n + 1]>>
    ELSE DecimalText(n \div 10) \o <<Digits[(n % 10) + 1]>>

RECURSIVE ParseDigits(_)
\* the number a non-empty text of decimal digits denotes
ParseDigits(s) ==
    IF s = <<>> THEN 0
    ELSE 10 * ParseDigits(SubSeq(s, 1, Len(s) - 1)) + DigitValue(s[Len(s)])

\* Python's str(value)
str(v) ==
    CASE v.t = "int" -> (IF v.n < 0 THEN <<"-">> \o DecimalText(0 - v.n) ELSE DecimalText(v.n))
      [] v.t = "str" -> v.s
      [] v.t = "null" -> <<"N", "o", "n", "e">>

\* Python's float(value), for integers, null and texts that are or are not a
\* signed decimal integer with surrounding whitespace: the number, or the error raised
float(v) ==
    CASE v.t = "int" -> [raises |-> "none", number |-> v.n]
      [] v.t = "null" -> [raises |-> "TypeError", number |-> 0]
      [] v.t = "str" ->
           LET s == Strip(v.s)
               signed == s # <<>> /\ s[1] \in {"-", "+"}
               body == IF signed THEN Tail(s) ELSE s
           IN  IF body # <<>> /\ \A i \in 1..Len(body) : IsDigit(body[i])
               THEN [raises |-> "none",
                     number |-> IF signed /\ s[1] = "-" THEN 0 - ParseDigits(body)
                                                        ELSE ParseDigits(body)]
               ELSE [raises |-> "ValueError", number |-> 0]

\* ------------------------------------------------------------------ chart configuration
\* the palettes imported from chart_generator: fixed, ordered, of equal length
CHART_COLORS == [k \in 1..PaletteLen |-> [role |-> "fill", n |-> k]]
CHART_BORDER_COLORS == [k \in 1..PaletteLen |-> [role |-> "border", n |-> k]]

\* a JSON value in the place of y_columns: null, or a list of names
JsonNull == [json |-> "null", items |-> <<>>]
JsonList(l) == [json |-> "list", items |-> l]

\* dict.get(key, default): a key that is absent is held as None
Get(d, key, default) == IF d[key] = None THEN default ELSE d[key][1]

\* list.index(x) for x in the list, counting from 1
Index(l, x) == CHOOSE i \in 1..Len(l) : l[i] = x /\ \A k \in 1..(i - 1) : l[k] # x

\* variant of x_idx: an unknown name falls back to the last column
x_idx_last(cols, x_col) == IF InList(x_col, cols) THEN Index(cols, x_col) ELSE Len(cols)

\* chat_app.py line 191, server.py line 280 (positions count from 1 here)
x_idx(cols, x_col) == IF InList(x_col, cols) THEN Index(cols, x_col) ELSE 1

\* variant of y_idx: an unknown name falls back to the first column
y_idx_first(cols, yc) == IF InList(yc, cols) THEN Index(cols, yc) ELSE 1

\* chat_app.py line 196, server.py line 285
y_idx(cols, yc) ==
    IF InList(yc, cols) THEN Index(cols, yc) ELSE (IF Len(cols) > 1 THEN 2 ELSE 1)

\* chat_app.py line 192, server.py line 281
Labels(rs, xi) == [i \in 1..Len(rs) |-> str(rs[i][xi])]

\* chat_app.py lines 197-202, server.py lines 286-291
Values(rs, yi) ==
    [i \in 1..Len(rs) |->
        IF float(rs[i][yi]).raises \in {"TypeError", "ValueError"} THEN 0
        ELSE float(rs[i][yi]).number]

\* palette[color_idx]: one colour for the dataset
OneColour(palette, color_idx) == [shape |-> "single", colours |-> <<palette[color_idx + 1]>>]

\* palette[:n]: a list of the first n colours, or of all of them when there are fewer
SlicedColours(palette, n) == [shape |-> "list", colours |-> SubSeq(palette, 1, Min(n, Len(palette)))]

\* chat_app.py lines 204-216: dataset number j (from 1) of _build_chart_config
ChatDataset(j, yc, vals, chart_type) ==
    LET color_idx == (j - 1) % Len(CHART_COLORS)
        per_dataset == chart_type \in {"bar", "horizontalBar", "line"}
    IN  [label |-> yc,
         data |-> vals,
         backgroundColor |-> IF per_dataset THEN OneColour(CHART_COLORS, color_idx)
                             ELSE SlicedColours(CHART_COLORS, Len(vals)),
         borderColor |-> IF per_dataset THEN OneColour(CHART_BORDER_COLORS, color_idx)
                         ELSE SlicedColours(CHART_BORDER_COLORS, Len(vals)),
         borderWidth |-> 2,
         fill |-> chart_type = "line",
         tension |-> chart_type = "line",
         pointRadius |-> chart_type = "line"]

\* server.py lines 293-304: dataset number j (from 1) of save_dashboard
DashboardDataset(j, yc, vals, chart_type) ==
    LET color_idx == (j - 1) % Len(CHART_COLORS)
    IN  [label |-> yc,
         data |-> vals,
         backgroundColor |-> OneColour(CHART_COLORS, color_idx),
         borderColor |-> OneColour(CHART_BORDER_COLORS, color_idx),
         borderWidth |-> 2,
         fill |-> chart_type = "line",
         tension |-> chart_type = "line",
         pointRadius |-> FALSE]

\* variant of chartjs_type: the suggested chart_type is the kind
chartjs_type_as_suggested(chart_type) == chart_type

\* chat_app.py line 218, server.py line 308
chartjs_type(chart_type) == IF chart_type = "horizontalBar" THEN "bar" ELSE chart_type

\* variant of Config: the legend follows the number of datasets alone
ConfigLegendByCount(chart_type, labels, datasets) ==
    [type |-> chartjs_type(chart_type),
     data |-> [labels |-> labels, datasets |-> datasets],
     legend_display |-> Len(datasets) > 1,
     scales |-> chart_type \notin {"pie", "doughnut"},
     indexAxis |-> IF chart_type = "horizontalBar" THEN Some("y") ELSE None]

\* chat_app.py lines 220-241, server.py lines 307-327: the configuration around
\* the labels and datasets.  scales: the axis options are present; indexAxis:
\* None, or the orientation flag
Config(chart_type, labels, datasets) ==
    [type |-> chartjs_type(chart_type),
     data |-> [labels |-> labels, datasets |-> datasets],
     legend_display |-> (Len(datasets) > 1 \/ chart_type \in {"pie", "doughnut"}),
     scales |-> chart_type \notin {"pie", "doughnut"},
     indexAxis |-> IF chart_type = "horizontalBar" THEN Some("y") ELSE None]

Raised(e) == [outcome |-> e, value |-> None]

\* chat_app._build_chart_config
_build_chart_config(r, s) ==
    IF Len(r.columns) = 0 THEN Raised("IndexError")
    ELSE LET x_col == Get(s, "x_column", r.columns[1])
             y_cols == Get(s, "y_columns", JsonList(SubSeq(r.columns, 2, Min(2, Len(r.columns)))))
             chart_type == Get(s, "chart_type", "bar")
             xi == x_idx(r.columns, x_col)
         IN  IF y_cols.json = "null" THEN Raised("TypeError")
             ELSE [outcome |-> "ok",
                   value |-> Some(
                     [config |-> Config(chart_type, Labels(r.rows, xi),
                                   [j \in 1..Len(y_cols.items) |->
                                      ChatDataset(j, y_cols.items[j],
                                                  Values(r.rows, y_idx(r.columns, y_cols.items[j])),
                                                  chart_type)]),
                      title |-> Get(s, "title", ""),
                      chart_type |-> chart_type])]

\* server.save_dashboard, lines 264-332: the chart of one question
save_dashboard_chart(r, s, question) ==
    IF Len(r.rows) = 0 THEN [outcome |-> "no_data", value |-> None]
    ELSE IF Len(r.columns) = 0 THEN Raised("IndexError")
    ELSE LET x_col == Get(s, "x_column", r.columns[1])
             y_cols == Get(s, "y_columns", JsonList(SubSeq(r.columns, 2, Min(2, Len(r.columns)))))
             xi == x_idx(r.columns, x_col)
         IN  IF y_cols.json = "null" THEN Raised("TypeError")
             ELSE IF s.chart_type = None THEN Raised("KeyError")
             ELSE [outcome |-> "ok",
                   value |-> Some(
                     [config |-> Config(s.chart_type[1], Labels(r.rows, xi),
                                   [j \in 1..Len(y_cols.items) |->
                                      DashboardDataset(j, y_cols.items[j],
                                                  Values(r.rows, y_idx(r.columns, y_cols.items[j])),
                                                  s.chart_type[1])]),
                      title |-> Get(s, "title", question)])]

\* ------------------------------------------------------------------ chart builder calls
east == <<"e", "a", "s", "t">>
west == <<"w", "e", "s", "t">>

\* the value of the first column in row i of a two-column result
XCell(i) == TextCell(IF i % 2 = 1 THEN east ELSE west)

\* the values a second (or only) column holds
YCells == {IntCell(10), TextCell(<<"b", "a", "d">>), TextCell(<<" ", "7">>), NullCell}

\* a Tabular Result of ncols columns whose last column holds ys
ResultOf(ncols, ys) ==
    [columns |-> SubSeq(<<"region", "total">>, 1, ncols),
     rows |-> [i \in 1..Len(ys) |->
                 IF ncols = 2 THEN <<XCell(i), ys[i]>>
                 ELSE IF ncols = 1 THEN <<ys[i]>>
                 ELSE <<>>],
     row_count |-> Len(ys),
     truncated |-> FALSE]

\* the results handed to a chart builder
ChartResults ==
    {ResultOf(0, [i \in 1..n |-> NullCell]) : n \in 0..MaxChartRows} \cup
    UNION {{ResultOf(c, ys) : ys \in [1..n -> YCells]} : c \in 1..2, n \in 0..MaxChartRows}

\* NLEngine.suggest_chart_type returns whatever JSON the model answered: any
\* field may be missing, name a column the result lacks, or be null
Suggestions ==
    [x_column : {None, Some("region"), Some("total"), Some("nope")},
     y_columns : {None, Some(JsonNull), Some(JsonList(<<>>)), Some(JsonList(<<"total">>)),
                  Some(JsonList(<<"nope">>)), Some(JsonList(<<"total", "region">>)),
                  Some(JsonList(<<"total", "region", "nope">>))},
     chart_type : {None, Some("bar"), Some("line"), Some("pie"), Some("doughnut"),
                   Some("scatter"), Some("horizontalBar"), Some("radar")},
     title : {None, Some("Sales")}]

\* chat_app.ask_question line 143: one call of _build_chart_config
BuildChart ==
    /\ pc = "idle"
    /\ \E r \in ChartResults, s \in Suggestions :
         call' = [op |-> "build_chart", outcome |-> _build_chart_config(r, s).outcome,
                  result |-> r, suggestion |-> s,
                  value |-> _build_chart_config(r, s).value]
    /\ pc' = "done"
    /\ UNCHANGED <<connection, db_type, schema, leaked, close_failures>>

\* server.save_dashboard lines 264-335: the chart of one question of a dashboard
BuildDashboardChart ==
    /\ pc = "idle"
    /\ \E r \in ChartResults, s \in Suggestions :
         call' = [op |-> "save_dashboard", outcome |-> save_dashboard_chart(r, s, "q").outcome,
                  result |-> r, suggestion |-> s,
                  value |-> save_dashboard_chart(r, s, "q").value]
    /\ pc' = "done"
    /\ UNCHANGED <<connection, db_type, schema, leaked, close_failures>>

\* ------------------------------------------------------------------ introspection calls
\* databases of a table ch and a table p it refers to: ch with no, a single or
\* a composite primary key and any of three foreign keys, one of them composite
PkChoices == {<<>>, <<"a">>, <<"b">>, <<"a", "b">>, <<"b", "a">>}

FkChoices ==
    {Fk("fk1", <<"c">>, "p", <<"x">>),
     Fk("fk2", <<"c", "d">>, "p", <<"x", "y">>),
     Fk("fk3", <<"a">>, "p", <<"y">>)}

IntrospectDatabases ==
    {[n \in {"ch", "p"} |->
        IF n = "ch"
        THEN [columns |-> <<Col("a", "INTEGER", TRUE), Col("b", "TEXT", TRUE),
                            Col("c", "INTEGER", FALSE), Col("d", "INTEGER", FALSE)>>,
              pk |-> pk, fks |-> SeqOf(fs), rows |-> 2]
        ELSE [columns |-> <<Col("x", "INTEGER", TRUE), Col("y", "INTEGER", TRUE)>>,
              pk |-> <<"x", "y">>, fks |-> <<>>, rows |-> 1]]
     : pk \in PkChoices, fs \in SUBSET FkChoices}

\* connect() line 83 on a fresh connection of dialect d to the database db
Introspect ==
    /\ pc = "idle"
    /\ \E d \in {sqlite, postgresql, mysql}, db \in IntrospectDatabases :
         call' = [op |-> "introspect", outcome |-> "ok", db_type |-> d, database |-> db,
                  value |-> Some(_introspect_schema(Some(d), db))]
    /\ pc' = "done"
    /\ UNCHANGED <<connection, db_type, schema, leaked, close_failures>>

\* ------------------------------------------------------------------ requests of two clients
DefaultMaxRows == 1000

\* the one database file each request of the clients names
SessionTargets == {"A", "B"}

\* chat_app.connect_database (server.connect_db): client s asks to connect;
\* the handler calls connect() on the process-wide manager
connect_database(s, t) ==
    /\ ConnectBegin(sqlite, t)
    /\ session' = [session EXCEPT !.asker = s]

\* the rest of connect(); when it returns, the handler answers success and the
\* client takes the database for connected
connect_database_step ==
    /\ \/ \E fails \in BOOLEAN : ConnectCloseOld(fails)
       \/ ConnectOpen(TRUE, TRUE)
       \/ ConnectIntrospect
    /\ session' = IF pc' = "done" /\ call'.outcome = "ok"
                  THEN [session EXCEPT !.connected[session.asker] = Some(call.target)]
                  ELSE session

\* chat_app.ask_question (server.ask_question): client s asks a question; the
\* handler refuses it without a connection, else runs the generated SQL on the
\* process-wide manager with the default row cap
ask_question(s, sql) ==
    /\ IF ~HasConnection
       THEN /\ pc = "idle"
            /\ call' = [op |-> "ask", outcome |-> "NoDatabase"]
            /\ pc' = "done"
            /\ UNCHANGED <<connection, db_type, schema, leaked, close_failures>>
       ELSE ExecuteQuery(sql, DefaultMaxRows)
    /\ session' = [session EXCEPT !.asker = s]

\* ------------------------------------------------------------------ specification
\* the caller takes the return value or the exception and goes on
Return ==
    /\ pc = "done"
    /\ pc' = "idle"
    /\ call' = NoCall
    /\ UNCHANGED <<connection, db_type, schema, leaked, close_failures>>

\* the manager on its own, driven by one caller
Next ==
    \/ \E d \in DialectArgs, t \in Targets : ConnectBegin(d, t) /\ UNCHANGED session
    \/ \E fails \in BOOLEAN : ConnectCloseOld(fails) /\ UNCHANGED session
    \/ \E driver_ok \in BOOLEAN, session_ok \in BOOLEAN :
          ConnectOpen(driver_ok, session_ok) /\ UNCHANGED session
    \/ ConnectIntrospect /\ UNCHANGED session
    \/ \E sql \in SqlTexts, max_rows \in 0..MaxCap :
          ExecuteQuery(sql, max_rows) /\ UNCHANGED session
    \/ \E fails \in BOOLEAN : Close(fails) /\ UNCHANGED session
    \/ Return /\ UNCHANGED session

Spec == Init /\ [][Next]_vars

\* the chart builders alone, on every result and suggestion
NextChart ==
    \/ BuildChart /\ UNCHANGED session
    \/ BuildDashboardChart /\ UNCHANGED session
    \/ Return /\ UNCHANGED session

SpecChart == Init /\ [][NextChart]_vars

\* schema introspection alone, on every dialect and declared database
NextIntrospect ==
    \/ Introspect /\ UNCHANGED session
    \/ Return /\ UNCHANGED session

SpecIntrospect == Init /\ [][NextIntrospect]_vars

\* two clients send connect and ask requests to the one process
NextSessions ==
    \/ \E s \in Sessions, t \in SessionTargets : connect_database(s, t)
    \/ connect_database_step
    \/ \E s \in Sessions : ask_question(s, <<"S","E","L","E","C","T"," ","1">>)
    \/ Return /\ UNCHANGED session

SpecSessions == Init /\ [][NextSessions]_vars

\* ------------------------------------------------------------------ properties
\* the Table Descriptor of table n as it was declared
TableDescriptor(t, n) ==
    LET decl == TableDecl(n)
    IN  [columns |-> [i \in 1..Len(decl.columns) |->
                        [name |-> decl.columns[i].name, type |-> decl.columns[i].type,
                         nullable |-> ~decl.columns[i].notnull,
                         primary_key |-> \E k \in 1..Len(decl.pk) : decl.pk[k] = decl.columns[i].name,
                         default |-> decl.columns[i].dflt]],
         foreign_keys |-> Concat([k \in 1..Len(decl.fks) |->
                            [j \in 1..Len(decl.fks[k].cols) |->
                               [column |-> decl.fks[k].cols[j],
                                references_table |-> decl.fks[k].ref_table,
                                references_column |-> decl.fks[k].ref_cols[j]]]]),
         row_count |-> DbRowCount(n)]

\* what introspecting the database behind target t yields
SchemaOfTarget(t) == [n \in DbTables(t) |-> TableDescriptor(t, n)]

\* the dialects connect() accepts, after normalisation (postgres is an alias)
SupportedDialects == {sqlite, postgresql, postgres, mysql}

BetweenCalls == pc \in {"idle", "done"}
ConnectDone == pc = "done" /\ call.op = "connect"
ExecuteDone == pc = "done" /\ call.op = "execute"
CloseDone == pc = "done" /\ call.op = "close"

\* C1: between calls, a schema that can be read through the schema accessor is
\* the introspection result of the manager's current, open connection.
C1_SchemaOfCurrentConnection ==
    (BetweenCalls /\ get_schema # None /\ get_schema # Some(None)) =>
        /\ IsOpen(connection)
        /\ schema = Some(SchemaOfTarget(connection[1].target))

\* C2: a connect() that fails with an unsupported dialect, a missing driver or
\* a failed driver connect leaves connection (still open), db_type and schema
\* as they were on entry.
C2_FailedConnectKeepsState ==
    (ConnectDone /\ call.outcome \in {"ValueError", "ImportError", "ConnectionError"}) =>
        manager = call.pre

\* C3: when connect() returns, the manager holds the new open connection and
\* exactly its schema; the old connection is closed before the new one is
\* opened, and without a failed close at most one connection is open.
C3_ReplaceShowsOnlySecond ==
    /\ (ConnectDone /\ call.outcome = "ok") =>
          /\ IsOpen(connection)
          /\ connection[1].target = call.target
          /\ schema = Some(SchemaOfTarget(call.target))
          /\ DOMAIN schema[1] = DbTables(call.target)
          /\ get_schema = Some(schema)
          /\ call.value = schema
    /\ (pc = "open" /\ ~call.close_failed) => ~IsOpen(connection)
    /\ close_failures = 0 => OpenCount <= 1

C3_Witness ==
    /\ ConnectDone /\ call.outcome = "ok"
    /\ IsOpen(call.pre[1]) /\ call.pre[1][1].target = "A"
    /\ call.pre[3] = Some(SchemaOfTarget("A"))
    /\ call.target = "B"
    /\ ~call.close_failed
    /\ DOMAIN schema[1] = {"t3"}

\* C4: connect() returns the schema, or raises ValueError (exactly when the
\* dialect is unsupported) or ConnectionError; nothing else escapes.
C4_ConnectOutcomes ==
    ConnectDone =>
        /\ call.outcome \in {"ok", "ValueError", "ConnectionError"}
        /\ call.outcome = "ValueError" <=> call.db_type \notin SupportedDialects

\* C5: a failure of the old connection's close() during connect() is ignored:
\* with a supported dialect, an importable driver and a reachable, readable
\* target, connect() still returns the new connection's schema.
C5_CloseFailureIgnored ==
    ( /\ ConnectDone /\ call.close_failed
      /\ call.db_type \in SupportedDialects
      /\ call.driver_ok /\ call.session_ok
      /\ PortParses(call.target) /\ Reachable(call.target) /\ IntrospectOk(call.target) ) =>
        /\ call.outcome = "ok"
        /\ IsOpen(connection) /\ connection[1].target = call.target
        /\ schema = Some(SchemaOfTarget(call.target))
        /\ call.value = schema

C5_Witness ==
    /\ ConnectDone /\ call.close_failed /\ call.outcome = "ok"
    /\ IsOpen(call.pre[1]) /\ call.pre[1][1].target = "A"
    /\ call.target = "B" /\ schema = Some(SchemaOfTarget("B"))

\* C6: after close() the manager has no connection, no dialect tag and no
\* cached schema.
C6_CloseClearsEverything ==
    (CloseDone /\ call.outcome = "ok") =>
        connection = None /\ db_type = None /\ schema = None

\* the fixed denylist of the read-only policy
DenyList ==
    {KW_INSERT, KW_UPDATE, KW_DELETE, KW_DROP, KW_ALTER, KW_CREATE,
     KW_TRUNCATE, KW_REPLACE, KW_MERGE}

\* text u begins with keyword k, and k ends there or is followed by whitespace
StartsWithToken(u, k) ==
    /\ Len(u) >= Len(k)
    /\ SubSeq(u, 1, Len(k)) = k
    /\ Len(u) > Len(k) => u[Len(k) + 1] \in Whitespace

\* the first whitespace-delimited token of the trimmed, upper-cased text is on the denylist
FirstTokenIsWrite(sql) ==
    \E k \in DenyList : StartsWithToken(Upper(LStrip(sql)), k)

\* a step that is one whole execute_query call
ExecuteStep == pc = "idle" /\ pc' = "done" /\ call'.op = "execute"

C8_RowCap ==
    (ExecuteDone /\ call.outcome = "ok" /\ call.max_rows >= 1) =>
        LET n == Len(call.backend_rows)
            rows == call.result.rows
        IN  /\ Len(rows) = (IF n < call.max_rows THEN n ELSE call.max_rows)
            /\ \A i \in 1..Len(rows) : rows[i] = call.backend_rows[i]
            /\ Len(rows) <= call.max_rows
            /\ call.result.truncated <=> Len(rows) = call.max_rows

C8_Witness ==
    /\ ExecuteDone /\ call.outcome = "ok"
    /\ call.max_rows = 2 /\ Len(call.backend_rows) = 3
    /\ Len(call.result.rows) = 2 /\ call.result.truncated

\* C9: every result execute_query returns has row_count = len(rows), rows of
\* exactly len(columns) elements, and the column names of the backend's
\* result-set metadata.
C9_ResultShape ==
    (ExecuteDone /\ call.outcome = "ok") =>
        LET r == call.result
        IN  /\ r.row_count = Len(r.rows)
            /\ \A i \in 1..Len(r.rows) : Len(r.rows[i]) = Len(r.columns)
            /\ IF call.description = None
               THEN r.columns = <<>>
               ELSE /\ Len(r.columns) = Len(call.description[1])
                    /\ \A j \in 1..Len(r.columns) : r.columns[j] = call.description[1][j][1]

\* C10: a statement that passes the gate and fails (backend error, closed or
\* missing connection) ends the call with RuntimeError; the backend is asked at
\* most once per call and the manager is left as it was.
C10_ExecutionFailureOnce ==
    /\ [](ExecuteDone =>
            /\ call.backend_calls <= 1
            /\ (~FirstTokenIsWrite(call.sql) /\ call.outcome # "ok") =>
                   call.outcome = "RuntimeError"
            /\ (~FirstTokenIsWrite(call.sql) /\ ~IsOpen(connection)) =>
                   call.outcome = "RuntimeError" /\ call.backend_calls = 0)
    /\ [][(ExecuteStep /\ call'.outcome = "RuntimeError") =>
            UNCHANGED <<connection, db_type, schema, leaked>>]_vars

C10_Witness ==
    /\ ExecuteDone /\ call.outcome = "RuntimeError"
    /\ connection = None
    /\ ~FirstTokenIsWrite(call.sql)
    /\ call.backend_calls = 0

\* a step of a connect() call
ConnectStep ==
    \/ pc = "idle" /\ pc' = "close_old"
    \/ pc \in {"close_old", "open", "introspect"}

\* a step that is one whole close() call that returns normally
CloseReturns == pc = "idle" /\ pc' = "done" /\ call'.op = "close" /\ call'.outcome = "ok"

\* C11 (as stated): no step outside a connect() call changes the cached schema
\* or what the schema accessor returns, so two reads with no connect between
\* them agree whatever else (execute, close) ran in between.
C11_SchemaStableWithoutConnect ==
    [][~ConnectStep => (schema' = schema /\ get_schema' = get_schema)]_vars

\* C11 (amended): no step outside a connect() call and other than a close()
\* that returns normally changes the cached schema or what the schema accessor
\* returns; two reads with no connect and no completed close between them agree.
C11_SchemaStableWithoutConnectOrClose ==
    [][(~ConnectStep /\ ~CloseReturns) => (schema' = schema /\ get_schema' = get_schema)]_vars

C11_Witness ==
    /\ ExecuteDone /\ call.outcome = "ok"
    /\ IsOpen(connection) /\ connection[1].target = "A"
    /\ schema = Some(SchemaOfTarget("A"))
    /\ get_schema = Some(schema)

\* ---- chart builder claims, stated for SpecChart
BuildDone == pc = "done" /\ call.op \in {"build_chart", "save_dashboard"}

\* a builder call that returned a configuration
Built == BuildDone /\ call.outcome = "ok"

BuiltConfig == call.value[1].config

\* the chart_type the builder works with: the suggested one, bar when absent
SuggestedType == IF call.suggestion.chart_type = None THEN "bar" ELSE call.suggestion.chart_type[1]

\* position (from 1) of a name in the result's columns, 0 when it is not there
ColumnPos(name) ==
    IF \E k \in 1..Len(call.result.columns) : call.result.columns[k] = name
    THEN CHOOSE k \in 1..Len(call.result.columns) : call.result.columns[k] = name
    ELSE 0

\* the string form of the row values used here
TextOf(v) ==
    CASE v.t = "null" -> <<"N", "o", "n", "e">>
      [] v.t = "int" /\ v.n = 10 -> <<"1", "0">>
      [] v.t = "str" -> v.s

\* the number a row value stands for, 0 when it stands for none
NumberOf(v) ==
    CASE v.t = "int" -> v.n
      [] v.t = "str" /\ v.s = <<" ", "7">> -> 7
      [] OTHER -> 0

\* C12: a builder call never ends with an error, whatever the result and the
\* suggestion are.
C12_BuildNeverFails ==
    BuildDone => call.outcome \notin {"IndexError", "TypeError", "KeyError"}

\* C13: in a built configuration the labels are the string forms of the rows'
\* values at the x index, one per row in row order, where the x index is the
\* position of the suggested x_column among the columns and the first column
\* when that name is absent or unknown.
C13_LabelsFollowXColumn ==
    Built =>
        LET named == IF call.suggestion.x_column = None THEN 0
                     ELSE ColumnPos(call.suggestion.x_column[1])
            xi == IF named = 0 THEN 1 ELSE named
            labels == BuiltConfig.data.labels
        IN  /\ Len(labels) = Len(call.result.rows)
            /\ \A i \in 1..Len(labels) : labels[i] = TextOf(call.result.rows[i][xi])

C13_Witness ==
    /\ Built /\ call.op = "build_chart"
    /\ call.suggestion.x_column = Some("total")
    /\ call.result.rows = <<<<XCell(1), IntCell(10)>>, <<XCell(2), NullCell>>,
                            <<XCell(3), TextCell(<<"b", "a", "d">>)>>>>
    /\ BuiltConfig.data.labels = <<<<"1", "0">>, <<"N", "o", "n", "e">>, <<"b", "a", "d">>>>

\* C14: for a suggestion that gives y_columns, a built configuration has one
\* dataset per name in the given order; its y index is the name's position
\* among the columns, else the second column if there is more than one, else
\* the first; its values are the rows' values at that index as numbers, row by
\* row, with 0 for a value that is no number.
C14_DatasetPerYColumn ==
    (Built /\ call.suggestion.y_columns # None) =>
        LET names == call.suggestion.y_columns[1].items
            datasets == BuiltConfig.data.datasets
            yi(name) == IF ColumnPos(name) # 0 THEN ColumnPos(name)
                        ELSE IF Len(call.result.columns) > 1 THEN 2 ELSE 1
        IN  /\ Len(datasets) = Len(names)
            /\ \A j \in 1..Len(names) :
                 /\ datasets[j].label = names[j]
                 /\ Len(datasets[j].data) = Len(call.result.rows)
                 /\ \A i \in 1..Len(call.result.rows) :
                      datasets[j].data[i] = NumberOf(call.result.rows[i][yi(names[j])])

C14_Witness ==
    /\ Built /\ call.op = "build_chart"
    /\ call.result.columns = <<"region", "total">>
    /\ call.result.rows = <<<<TextCell(east), IntCell(10)>>,
                            <<TextCell(west), TextCell(<<"b", "a", "d">>)>>>>
    /\ call.suggestion.chart_type = Some("bar")
    /\ call.suggestion.x_column = Some("region")
    /\ call.suggestion.y_columns = Some(JsonList(<<"total">>))
    /\ BuiltConfig.data.labels = <<east, west>>
    /\ BuiltConfig.data.datasets[1].data = <<10, 0>>

\* C15: in a built configuration a dataset of a pie or doughnut chart has a
\* list of as many colours as it has values, and a dataset of any other kind
\* has the single palette colour at (dataset index) mod (palette length).
C15_ColourByKind ==
    Built =>
        \A j \in 1..Len(BuiltConfig.data.datasets) :
            LET ds == BuiltConfig.data.datasets[j]
            IN  IF BuiltConfig.type \in {"pie", "doughnut"}
                THEN /\ ds.backgroundColor.shape = "list"
                     /\ Len(ds.backgroundColor.colours) = Len(ds.data)
                ELSE /\ ds.backgroundColor.shape = "single"
                     /\ ds.backgroundColor.colours = <<CHART_COLORS[((j - 1) % PaletteLen) + 1]>>

\* the kinds a renderer has to support
PrimitiveKinds == {"bar", "line", "pie", "doughnut", "scatter"}

\* C16 (as stated): a built configuration has kind bar and the orientation flag for
\* chart_type horizontalBar, the flag for no other chart_type, and a kind that
\* is never horizontalBar and always one of the primitive kinds.
C16_HorizontalBarNormalised ==
    Built =>
        /\ SuggestedType = "horizontalBar" =>
              BuiltConfig.type = "bar" /\ BuiltConfig.indexAxis = Some("y")
        /\ SuggestedType # "horizontalBar" => BuiltConfig.indexAxis = None
        /\ BuiltConfig.type # "horizontalBar"
        /\ BuiltConfig.type \in PrimitiveKinds

\* the chart types a suggestion is meant to name
KnownChartTypes == {"bar", "line", "pie", "doughnut", "scatter", "horizontalBar"}

\* C16 (amended): a built configuration has kind bar and the orientation flag
\* for chart_type horizontalBar; for any other chart_type it has no flag and
\* the chart_type itself as its kind.  The kind is never horizontalBar, and it
\* is a primitive kind whenever the chart_type is a known one or absent.
C16_OnlyHorizontalBarRewritten ==
    Built =>
        /\ SuggestedType = "horizontalBar" =>
              BuiltConfig.type = "bar" /\ BuiltConfig.indexAxis = Some("y")
        /\ SuggestedType # "horizontalBar" =>
              BuiltConfig.type = SuggestedType /\ BuiltConfig.indexAxis = None
        /\ BuiltConfig.type # "horizontalBar"
        /\ SuggestedType \in KnownChartTypes => BuiltConfig.type \in PrimitiveKinds

C16_Witness ==
    /\ Built
    /\ call.suggestion.chart_type = Some("horizontalBar")
    /\ BuiltConfig.type = "bar"
    /\ BuiltConfig.indexAxis = Some("y")
    /\ Len(BuiltConfig.data.datasets) = 1

\* C17: in a built configuration the legend is shown exactly when there is
\* more than one dataset or the kind is pie or doughnut, and the axis options
\* are present exactly when the kind is neither.
C17_LegendAndAxes ==
    Built =>
        /\ BuiltConfig.legend_display <=>
              (Len(BuiltConfig.data.datasets) > 1 \/ BuiltConfig.type \in {"pie", "doughnut"})
        /\ BuiltConfig.scales <=> BuiltConfig.type \notin {"pie", "doughnut"}

C17_Witness ==
    /\ Built
    /\ BuiltConfig.type = "pie"
    /\ Len(BuiltConfig.data.datasets) = 1
    /\ BuiltConfig.legend_display
    /\ ~BuiltConfig.scales

\* ---- introspection claim, stated for SpecIntrospect
IntrospectDone == pc = "done" /\ call.op = "introspect"

\* the (column, references_table, references_column) triples a table declares
DeclaredTriples(decl) ==
    UNION {{[column |-> decl.fks[k].cols[j], references_table |-> decl.fks[k].ref_table,
             references_column |-> decl.fks[k].ref_cols[j]] : j \in 1..Len(decl.fks[k].cols)}
           : k \in 1..Len(decl.fks)}

\* C18: for each dialect, introspection gives every table a descriptor of the
\* same shape, whose primary_key flag is true exactly for the columns of the
\* declared (possibly composite) primary key and whose foreign keys are
\* exactly the declared triples, none missing and none spurious.
C18_IntrospectionMatchesDeclaration ==
    IntrospectDone =>
        \A n \in DOMAIN call.database :
            LET decl == call.database[n]
                td == call.value[1][n]
            IN  /\ DOMAIN td = {"columns", "foreign_keys", "row_count"}
                /\ Len(td.columns) = Len(decl.columns)
                /\ \A i \in 1..Len(td.columns) :
                     /\ DOMAIN td.columns[i] = {"name", "type", "nullable", "primary_key", "default"}
                     /\ td.columns[i].name = decl.columns[i].name
                     /\ td.columns[i].primary_key <=> InList(decl.columns[i].name, decl.pk)
                /\ {td.foreign_keys[i] : i \in 1..Len(td.foreign_keys)} = DeclaredTriples(decl)

\* C20: between calls the manager's connection, dialect tag and cached schema
\* are all absent or all present, and a present dialect tag is one of the
\* canonical tags sqlite, postgresql, mysql.
C20_FieldsTogether ==
    BetweenCalls =>
        /\ \/ connection = None /\ db_type = None /\ schema = None
           \/ connection # None /\ db_type # None /\ schema # None
        /\ db_type # None => db_type[1] \in {sqlite, postgresql, mysql}

\* C19: a question a client asks is executed against, and described with the
\* schema of, the database that same client was last connected to, whatever
\* requests the other client sent in between.
C19_SessionsIsolated ==
    (ExecuteDone /\ call.outcome = "ok") =>
        /\ session.connected[session.asker] = Some(call.ran_on)
        /\ schema = Some(SchemaOfTarget(call.ran_on))

\* C21: get_schema_description returns "No database connected." exactly when
\* the manager has no active connection; with a connection, also one to a
\* database without tables, the description begins with the line of the
\* connection's dialect and has one block per table of the cached schema.
C21_DescriptionTellsConnection ==
    BetweenCalls =>
        /\ (get_schema_description = NoDatabaseConnected) <=> ~HasConnection
        /\ HasConnection =>
             /\ db_type # None
             /\ schema # None
             /\ get_schema_description[1] = DialectLine(db_type[1])
             /\ \A n \in DOMAIN schema[1] :
                  Cardinality({i \in 1..Len(get_schema_description) :
                                 /\ get_schema_description[i].line = "Table:"
                                 /\ get_schema_description[i].name = n}) = 1
             /\ Cardinality({i \in 1..Len(get_schema_description) :
                               get_schema_description[i].line = "Table:"})
                  = Cardinality(DOMAIN schema[1])

\* what the two builders make of the result and suggestion of the call
ByChat == _build_chart_config(call.result, call.suggestion)
ByDashboard == save_dashboard_chart(call.result, call.suggestion, "q")

\* the parts of a dataset the two builders are compared on
DatasetCore(ds) == [label |-> ds.label, data |-> ds.data, backgroundColor |-> ds.backgroundColor]

\* C22: _build_chart_config and the inline builder of save_dashboard are
\* equivalent: on every result (with rows, which is where save_dashboard
\* builds a chart) and suggestion they fail on the same inputs, and where both
\* return they give the same kind, labels, datasets (label, values, colour
\* shape and colours), legend visibility and orientation flag.
C22_BuildersEquivalent ==
    (BuildDone /\ call.result.rows # <<>>) =>
        /\ (ByChat.outcome = "ok") <=> (ByDashboard.outcome = "ok")
        /\ (ByChat.outcome = "ok" /\ ByDashboard.outcome = "ok") =>
             LET c == ByChat.value[1].config
                 d == ByDashboard.value[1].config
             IN  /\ c.type = d.type
                 /\ c.data.labels = d.data.labels
                 /\ Len(c.data.datasets) = Len(d.data.datasets)
                 /\ \A j \in 1..Len(c.data.datasets) :
                      DatasetCore(c.data.datasets[j]) = DatasetCore(d.data.datasets[j])
                 /\ c.legend_display = d.legend_display
                 /\ c.indexAxis = d.indexAxis
====
